---- MODULE Spec2Model ----
(***************************************************************************)
(* Markov chain intraday prediction system                                 *)
(* (Markov program/strategy_files/markov_trading_system.py).               *)
(*                                                                         *)
(* A run of main() is a sequence of steps over one loaded table: load the  *)
(* data file, train the transition model on the whole close column, read   *)
(* the prediction date, select the previous trading day and slice its      *)
(* candles.  A table is columnar, as a pandas DataFrame is: a record of    *)
(* equally long sequences.  A Date is <<calendar day, slot in the stream>> *)
(* and compares lexicographically; floats that are ratios of counts are    *)
(* kept as reduced fractions <<numerator, denominator>>.                   *)
(***************************************************************************)
EXTENDS Integers, Sequences, FiniteSets, TLC

VARIABLES file, pc, df, total_days, total_candles, movements,
          transition_matrix, pattern_counts, unique_patterns, avg_frequency,
          available_dates, prediction_date_str, prediction_date, pred_index,
          previous_day, prev_day_df, num_candles, stdout, exit_status,
          first_run,
          patterns_found, total_up, total_down, total_flat, matched_patterns,
          confidence_up, confidence_down, confidence_flat, max_confidence,
          prediction, confidence, strength_score, signal_strength,
          consecutive, momentum_type, momentum, atr, volatility,
          action, report, results_file, stderr, read_attempts

matchVars == <<total_up, total_down, total_flat, matched_patterns>>

scoreVars == <<confidence_up, confidence_down, confidence_flat, max_confidence,
               prediction, confidence, strength_score, signal_strength,
               consecutive, momentum_type, momentum, atr, volatility>>

reportVars == <<action, report>>

saveVars == <<results_file, stderr>>

predictorVars == <<patterns_found, matchVars, scoreVars, reportVars, saveVars>>

loadedVars == <<file, df, total_days, total_candles, movements,
                transition_matrix, pattern_counts, unique_patterns,
                avg_frequency, available_dates, prediction_date_str,
                prediction_date, pred_index, previous_day, num_candles,
                first_run, read_attempts>>

vars == <<file, pc, df, total_days, total_candles, movements,
          transition_matrix, pattern_counts, unique_patterns, avg_frequency,
          available_dates, prediction_date_str, prediction_date, pred_index,
          previous_day, prev_day_df, num_candles, stdout, exit_status,
          first_run, predictorVars,
          read_attempts>>

(***************************************************************************)
(* Bounds of the inputs.                                                   *)
(***************************************************************************)
MaxLen == 6

MaxClose == 2

MaxDay == 3

MaxTail == 3

MaxSpread == 3

(***************************************************************************)
(* Python values.                                                          *)
(***************************************************************************)
\* None, and a name not bound yet, is the empty tuple; a value v is <<v>>
None == <<>>

Some(v) == <<v>>

Val(x) == x[1]

EmptyDict == <<>>

Symbols == {"UP", "DOWN", "FLAT"}

Patterns == Symbols \X Symbols \X Symbols

RECURSIVE GCD(_, _)
GCD(a, b) == IF b = 0 THEN a ELSE GCD(b, a % b)

\* the float n / d, for counts n >= 0 and d > 0, as a reduced fraction
Frac(n, d) ==
    LET g == GCD(IF n < 0 THEN 0 - n ELSE n, d) IN <<n \div g, d \div g>>

\* x + y over the least common denominator
FracAdd(x, y) ==
    LET g == GCD(x[2], y[2])
    IN Frac(x[1] * (y[2] \div g) + y[1] * (x[2] \div g), x[2] * (y[2] \div g))

FracSub(x, y) == FracAdd(x, <<0 - y[1], y[2]>>)

Abs(n) == IF n < 0 THEN 0 - n ELSE n

\* x * y, cancelling across before multiplying
FracMul(x, y) ==
    LET g1 == GCD(Abs(x[1]), y[2])
        g2 == GCD(Abs(y[1]), x[2])
    IN Frac((x[1] \div g1) * (y[1] \div g2), (x[2] \div g2) * (y[2] \div g1))

\* x / y for y > 0
FracDiv(x, y) == FracMul(x, <<y[2], y[1]>>)

FracLess(x, y) == x[1] * y[2] < y[1] * x[2]

Zero == <<0, 1>>

RECURSIVE FracSum(_)
FracSum(dist) ==
    IF DOMAIN dist = {} THEN <<0, 1>>
    ELSE LET k == CHOOSE k \in DOMAIN dist : TRUE
             rest == [j \in DOMAIN dist \ {k} |-> dist[j]]
         IN FracAdd(dist[k], FracSum(rest))

One == <<1, 1>>

(***************************************************************************)
(* The data file and load_historical_data.                                 *)
(***************************************************************************)
\* the missing value of the Close column (prices are positive) and of Date
NaN == 0

NaT == <<0, 0>>

EmptyTable == [Date |-> <<>>, Close |-> <<>>, High |-> <<>>, Low |-> <<>>]

Rows(t) == 1..Len(t.Date)

\* the rows of t at the positions idx (a sequence of row numbers), in order
Take(t, idx) == [Date  |-> [i \in 1..Len(idx) |-> t.Date[idx[i]]],
                 Close |-> [i \in 1..Len(idx) |-> t.Close[idx[i]]],
                 High  |-> [i \in 1..Len(idx) |-> t.High[idx[i]]],
                 Low   |-> [i \in 1..Len(idx) |-> t.Low[idx[i]]]]

RECURSIVE Filter(_, _, _)
\* the row numbers i..Len of a table whose keep[i] is TRUE, ascending
Filter(keep, i, n) ==
    IF i > n THEN <<>>
    ELSE IF keep[i] THEN <<i>> \o Filter(keep, i + 1, n)
    ELSE Filter(keep, i + 1, n)

\* df.dropna(): drop every row with a missing value in any column
dropna(t) ==
    Take(t, Filter([i \in Rows(t) |->
                        /\ t.Date[i] # NaT
                        /\ t.Close[i] # NaN
                        /\ t.High[i] # NaN
                        /\ t.Low[i] # NaN],
                   1, Len(t.Date)))

DateLess(a, b) == a[1] < b[1] \/ (a[1] = b[1] /\ a[2] < b[2])

RECURSIVE InsertRow(_, _, _)
\* row number r inserted into idx, which is ordered by ascending Date
InsertRow(t, idx, r) ==
    IF idx = <<>> THEN <<r>>
    ELSE IF DateLess(t.Date[r], t.Date[Head(idx)]) THEN <<r>> \o idx
    ELSE <<Head(idx)>> \o InsertRow(t, Tail(idx), r)

RECURSIVE SortIdx(_, _)
SortIdx(t, n) == IF n = 0 THEN <<>> ELSE InsertRow(t, SortIdx(t, n - 1), n)

\* the rows left in the order of the file
sort_values_Skipped(t) == t

\* df.sort_values('Date').reset_index(drop=True)
sort_values(t) == Take(t, SortIdx(t, Len(t.Date)))

\* the separators of the three pd.read_csv calls, in the order of the
\* nested try blocks
Separators == <<"tab", "comma", "whitespace">>

\* what pd.read_csv makes of a file with one separator: it raises, or it
\* returns a frame that line 40 cannot use (no Date column, or one that
\* pd.to_datetime rejects), or it returns the table
Readings == {"raises", "unusable", "table"}

RECURSIVE ReadLoop(_, _, _)
\* try the separators from the k-th on; a call that returns ends the search
ReadLoop(f, k, tried) ==
    IF k > Len(Separators) THEN [tried |-> tried, result |-> "raises"]
    ELSE IF f.read[Separators[k]] = "raises"
    THEN ReadLoop(f, k + 1, Append(tried, Separators[k]))
    ELSE [tried |-> Append(tried, Separators[k]),
          result |-> f.read[Separators[k]]]

\* lines 24-31
read_csv(f) == ReadLoop(f, 1, <<>>)

\* f.exists: the path exists; f.read: the outcome of pd.read_csv per
\* separator; f.has_close: the table has a Close column
load_historical_data(f) ==
    IF ~f.exists THEN None
    ELSE IF read_csv(f).result # "table" THEN None
    ELSE IF ~f.has_close THEN None
    ELSE Some(sort_values(dropna(f.table)))

\* what load_historical_data prints, lines 20, 45 and 51
LoaderMessages(f) ==
    IF ~f.exists THEN <<"ERROR: Data file not found">>
    ELSE IF read_csv(f).result # "table" THEN <<"ERROR loading data">>
    ELSE IF ~f.has_close THEN <<"ERROR: 'Close' column not found in data!">>
    ELSE <<>>

\* the read_csv calls made, none when the path does not exist
ReadAttempts(f) == IF ~f.exists THEN <<>> ELSE read_csv(f).tried

\* df['Date'].dt.date
TradingDay(t) == [i \in Rows(t) |-> t.Date[i][1]]

\* df['TradingDay'].unique(), as a set
Unique(col) == {col[i] : i \in DOMAIN col}

(***************************************************************************)
(* build_markov_model.                                                     *)
(***************************************************************************)
MinRows == 4

\* list[i] for a Python index i: 0-based, a negative i counts from the end
At0(list, i) == IF i < 0 THEN list[Len(list) + i + 1] ELSE list[i + 1]

\* a non-strict comparison: an unchanged close counts as UP
Movement_NonStrict(prev, cur) ==
    IF cur >= prev THEN "UP"
    ELSE IF cur < prev THEN "DOWN"
    ELSE "FLAT"

Movement(prev, cur) ==
    IF cur > prev THEN "UP"
    ELSE IF cur < prev THEN "DOWN"
    ELSE "FLAT"

RECURSIVE EncodeLoop(_, _, _)
\* for i in range(i, total_rows): movements.append(...)
EncodeLoop(closes, i, m) ==
    IF i >= Len(closes) THEN m
    ELSE EncodeLoop(closes, i + 1,
                    Append(m, Movement(At0(closes, i - 1), At0(closes, i))))

Encode(closes) == EncodeLoop(closes, 1, <<>>)

\* pattern_counts[pattern][next_move] += 1 on a defaultdict(Counter)
Increment(counts, pattern, next_move) ==
    LET old == IF pattern \in DOMAIN counts THEN counts[pattern] ELSE EmptyDict
        c   == IF next_move \in DOMAIN old THEN old[next_move] ELSE 0
        new == [s \in DOMAIN old \cup {next_move} |->
                    IF s = next_move THEN c + 1 ELSE old[s]]
    IN [p \in DOMAIN counts \cup {pattern} |->
            IF p = pattern THEN new ELSE counts[p]]

\* first index of the counting loop, range(3, len(movements))
FirstOutcome == 3

\* a window that has slid one symbol too far and holds the outcome itself
PatternAt_Shifted(m, i) == <<At0(m, i - 2), At0(m, i - 1), At0(m, i)>>

PatternAt(m, i) == <<At0(m, i - 3), At0(m, i - 2), At0(m, i - 1)>>

RECURSIVE CountLoop_StopsEarly(_, _, _)
\* a loop that leaves out the last movement of the data
CountLoop_StopsEarly(m, i, counts) ==
    IF i >= Len(m) - 1 THEN counts
    ELSE CountLoop_StopsEarly(m, i + 1,
                              Increment(counts, PatternAt(m, i), At0(m, i)))

RECURSIVE CountLoop(_, _, _)
\* for i in range(i, len(movements)): pattern_counts[pattern][next_move] += 1
CountLoop(m, i, counts) ==
    IF i >= Len(m) THEN counts
    ELSE CountLoop(m, i + 1, Increment(counts, PatternAt(m, i), At0(m, i)))

\* len(counter): the number of distinct outcomes instead of their total
SumValues_Len(counter) == Cardinality(DOMAIN counter)

RECURSIVE SumValues(_)
\* sum(counter.values())
SumValues(counter) ==
    IF DOMAIN counter = {} THEN 0
    ELSE LET k == CHOOSE k \in DOMAIN counter : TRUE
         IN counter[k] + SumValues([j \in DOMAIN counter \ {k} |-> counter[j]])

\* a distribution over all three symbols, 0.0 for the unobserved ones
Distribution_AllSymbols(counter) ==
    [move \in Symbols |->
        Frac(IF move \in DOMAIN counter THEN counter[move] ELSE 0,
             SumValues(counter))]

Distribution(counter) ==
    [move \in DOMAIN counter |-> Frac(counter[move], SumValues(counter))]

\* only the patterns seen at least twice
StoredPatterns_Recurring(counts) ==
    {p \in DOMAIN counts : SumValues(counts[p]) >= 2}

\* the patterns that receive a distribution
StoredPatterns(counts) == DOMAIN counts

\* tables that outlive the call, as module globals or default arguments do
stale_locals(frame) == frame

\* the locals of a call, whatever an earlier call left behind
fresh_locals(frame) ==
    [transition_matrix |-> EmptyDict, pattern_counts |-> EmptyDict]

NoFrame == [transition_matrix |-> EmptyDict, pattern_counts |-> EmptyDict]

\* a guard that lets three rows through
TooFewRows_Three(total_rows) == total_rows < MinRows - 1

TooFewRows(total_rows) == total_rows < MinRows

build_markov_model(frame, t) ==
    LET loc        == fresh_locals(frame)
        closes     == t.Close
        total_rows == Len(closes)
        m          == Encode(closes)
        counts     == CountLoop(m, FirstOutcome, loc.pattern_counts)
        tm         == [p \in DOMAIN loc.transition_matrix
                             \cup StoredPatterns(counts) |->
                         IF p \in StoredPatterns(counts)
                         THEN Distribution(counts[p])
                         ELSE loc.transition_matrix[p]]
    IN IF TooFewRows(total_rows)
       THEN [transition_matrix |-> None, pattern_counts |-> None,
             movements |-> None]
       ELSE [transition_matrix |-> Some(tm), pattern_counts |-> Some(counts),
             movements |-> Some(m)]

\* sum(sum(pattern_counts[p].values()) for p in pattern_counts)
RECURSIVE SumCounts(_)
SumCounts(counts) ==
    IF DOMAIN counts = {} THEN 0
    ELSE LET p == CHOOSE p \in DOMAIN counts : TRUE
         IN SumValues(counts[p])
            + SumCounts([q \in DOMAIN counts \ {p} |-> counts[q]])

\* the number of distinct outcomes per pattern instead of the observations
AvgFrequency_Outcomes(counts, n) ==
    IF n > 0
    THEN Frac(Cardinality({ps \in (DOMAIN counts) \X Symbols :
                              ps[2] \in DOMAIN counts[ps[1]]}), n)
    ELSE <<0, 1>>

AvgFrequency(counts, n) ==
    IF n > 0 THEN Frac(SumCounts(counts), n) ELSE <<0, 1>>

\* "if not transition_matrix": an empty model counts as a failure too
TrainingFailed_Falsy(tm) == tm = None \/ tm = Some(EmptyDict)

\* transition_matrix is None
TrainingFailed(tm) == tm = None

(***************************************************************************)
(* Date selection.                                                         *)
(***************************************************************************)
RECURSIVE Sorted(_)
\* sorted(set): ascending list
Sorted(S) ==
    IF S = {} THEN <<>>
    ELSE LET lo == CHOOSE x \in S : \A y \in S : x <= y
         IN <<lo>> \o Sorted(S \ {lo})

\* list.index(x), 0-based
ListIndex(list, x) ==
    (CHOOSE i \in 1..Len(list) :
        list[i] = x /\ \A j \in 1..(i - 1) : list[j] # x) - 1

\* pd.to_datetime(s).date(): the day a well-formed string names, None when
\* the conversion raises
ParseDate(s) == IF s[1] = "ymd" THEN Some(s[2]) ELSE None

\* a check that never finds the first date
NoPreviousDay_Never(idx) == idx < 0

\* the predecessor check is off by one: it stops the second date and lets
\* the first one through
NoPreviousDay_Second(idx) == idx = 1

NoPreviousDay(idx) == idx = 0

\* the calendar day before the prediction date
PreviousDay_Calendar(dates, idx) == At0(dates, idx) - 1

PreviousDay(dates, idx) == At0(dates, idx - 1)

\* df[df['TradingDay'] == day]
DayRows(t, day) ==
    Take(t, Filter([i \in Rows(t) |-> TradingDay(t)[i] = day], 1, Len(t.Date)))

(***************************************************************************)
(* The predictor: lines 154-230 of main.                                   *)
(***************************************************************************)
MinCandles == 10

InsufficientData_AtMost(n) == n <= MinCandles

InsufficientData(n) == n < MinCandles

\* the day encoded by another rule than the training data: an unchanged
\* close counts as UP
DayMovement_NonStrict(prev, cur) ==
    IF cur >= prev THEN "UP"
    ELSE IF cur < prev THEN "DOWN"
    ELSE "FLAT"

\* the Movement of day candle i >= 1; the column starts out all 'FLAT'
DayMovement(prev, cur) ==
    IF cur > prev THEN "UP"
    ELSE IF cur < prev THEN "DOWN"
    ELSE "FLAT"

RECURSIVE DayMovementLoop(_, _, _)
\* for i in range(i, len(prev_day_df)): set Movement of row i
DayMovementLoop(closes, i, col) ==
    IF i >= Len(closes) THEN col
    ELSE DayMovementLoop(closes, i + 1,
             [col EXCEPT ![i + 1] = DayMovement(At0(closes, i - 1),
                                                At0(closes, i))])

\* prev_day_df['Movement']
MovementColumn(closes) ==
    DayMovementLoop(closes, 1, [i \in 1..Len(closes) |-> "FLAT"])

\* first index of the window loop, range(2, len(prev_day_df))
FirstWindow == 2

\* the window of the training loop: the three movements before candle i
LocalPattern_Before(col, i) ==
    <<At0(col, i - 3), At0(col, i - 2), At0(col, i - 1)>>

LocalPattern(col, i) == <<At0(col, i - 2), At0(col, i - 1), At0(col, i)>>

RECURSIVE WindowLoop(_, _, _)
WindowLoop(col, i, found) ==
    IF i >= Len(col) THEN found
    ELSE WindowLoop(col, i + 1, Append(found, LocalPattern(col, i)))

PatternsFound(col) == WindowLoop(col, FirstWindow, <<>>)

\* an outcome the distribution lacks counts as a third
Get_Third(probs, move) ==
    IF move \in DOMAIN probs THEN probs[move] ELSE <<1, 3>>

\* probs.get(move, 0)
Get(probs, move) == IF move \in DOMAIN probs THEN probs[move] ELSE Zero

NoTotals == [total_up |-> Zero, total_down |-> Zero, total_flat |-> Zero,
             matched_patterns |-> 0]

\* every pattern counts as matched, known to the model or not
MatchOne_CountAll(tm, pattern, acc) ==
    [total_up |->
        FracAdd(acc.total_up,
                IF pattern \in DOMAIN tm THEN Get(tm[pattern], "UP") ELSE Zero),
     total_down |->
        FracAdd(acc.total_down,
                IF pattern \in DOMAIN tm THEN Get(tm[pattern], "DOWN")
                ELSE Zero),
     total_flat |->
        FracAdd(acc.total_flat,
                IF pattern \in DOMAIN tm THEN Get(tm[pattern], "FLAT")
                ELSE Zero),
     matched_patterns |-> acc.matched_patterns + 1]

\* one pass of the matching loop body
MatchOne(tm, pattern, acc) ==
    IF pattern \in DOMAIN tm
    THEN [total_up |-> FracAdd(acc.total_up, Get(tm[pattern], "UP")),
          total_down |-> FracAdd(acc.total_down, Get(tm[pattern], "DOWN")),
          total_flat |-> FracAdd(acc.total_flat, Get(tm[pattern], "FLAT")),
          matched_patterns |-> acc.matched_patterns + 1]
    ELSE acc

RECURSIVE MatchLoop(_, _, _, _)
\* for pattern in patterns_found, from position k on
MatchLoop(tm, found, k, acc) ==
    IF k > Len(found) THEN acc
    ELSE MatchLoop(tm, found, k + 1, MatchOne(tm, found[k], acc))

NoMatch_AtMostOne(matched) == matched <= 1

\* the subscript of a defaultdict: a missing key is inserted
AfterLookup_Default(tm, pattern) ==
    IF pattern \in DOMAIN tm THEN tm ELSE tm @@ (pattern :> EmptyDict)

\* the dict after 'pattern in transition_matrix' and, for a key that is
\* there, transition_matrix[pattern]: a plain dict, nothing is inserted
AfterLookup(tm, pattern) == tm

RECURSIVE LookupLoop(_, _, _)
\* the dict after the lookups of found[k], found[k + 1], ...
LookupLoop(tm, found, k) ==
    IF k > Len(found) THEN tm
    ELSE LookupLoop(AfterLookup(tm, found[k]), found, k + 1)

NoMatch(matched) == matched = 0

Hundred == <<100, 1>>

Confidence_Share(part, total) == FracDiv(part, total)

\* (part / total) * 100
Confidence(part, total) == FracMul(FracDiv(part, total), Hundred)

FracMax(x, y) == IF FracLess(x, y) THEN y ELSE x

\* max(a, b, c)
Max3(a, b, c) == FracMax(FracMax(a, b), c)

Prediction_DownFirst(up, down, flat) ==
    IF Max3(up, down, flat) = down THEN "BEARISH"
    ELSE IF Max3(up, down, flat) = up THEN "BULLISH"
    ELSE "NEUTRAL"

Prediction(up, down, flat) ==
    IF Max3(up, down, flat) = up THEN "BULLISH"
    ELSE IF Max3(up, down, flat) = down THEN "BEARISH"
    ELSE "NEUTRAL"

ChosenConfidence(up, down, flat) ==
    IF Max3(up, down, flat) = up THEN up
    ELSE IF Max3(up, down, flat) = down THEN down
    ELSE flat

\* 33.33 and 66.67
Third == <<3333, 100>>

TwoThirds == <<6667, 100>>

StrengthScore_Unshifted(max_conf) ==
    FracMul(FracDiv(max_conf, TwoThirds), Hundred)

\* ((max_confidence - 33.33) / 66.67) * 100
StrengthScore(max_conf) ==
    FracMul(FracDiv(FracSub(max_conf, Third), TwoThirds), Hundred)

StrongAbove == 70

ModerateAbove == 40

SignalStrength_Inclusive(score) ==
    IF ~FracLess(score, <<StrongAbove, 1>>) THEN "Strong"
    ELSE IF ~FracLess(score, <<ModerateAbove, 1>>) THEN "Moderate"
    ELSE "Weak"

SignalStrength(score) ==
    IF FracLess(<<StrongAbove, 1>>, score) THEN "Strong"
    ELSE IF FracLess(<<ModerateAbove, 1>>, score) THEN "Moderate"
    ELSE "Weak"

TailLen == 5

\* Series.tail(n).tolist()
Tail5(col) == IF Len(col) <= TailLen THEN col
              ELSE SubSeq(col, Len(col) - TailLen + 1, Len(col))

RECURSIVE ConsecutiveLoop(_, _, _)
\* for i in range(i, 0, -1): count on while equal and not FLAT, else break
ConsecutiveLoop(last_5, i, run) ==
    IF i <= 0 THEN run
    ELSE IF At0(last_5, i) = At0(last_5, i - 1) /\ At0(last_5, i) # "FLAT"
    THEN ConsecutiveLoop(last_5, i - 1, run + 1)
    ELSE run

Consecutive(last_5) == ConsecutiveLoop(last_5, Len(last_5) - 1, 1)

MomentumType(last_5, run) ==
    IF run > 1 THEN At0(last_5, 0 - 1) ELSE "Mixed"

StrongRun == 4

ModerateRun == 2

Momentum(run) ==
    IF run >= StrongRun THEN "Strong"
    ELSE IF run >= ModerateRun THEN "Moderate"
    ELSE "Weak"

RECURSIVE SeqSum(_)
SeqSum(col) == IF col = <<>> THEN 0 ELSE Head(col) + SeqSum(Tail(col))

\* Series.mean()
Mean(col) == Frac(SeqSum(col), Len(col))

\* (prev_day_df['High'] - prev_day_df['Low']).mean()
ATR(t) == Mean([i \in Rows(t) |-> t.High[i] - t.Low[i]])

\* 0.02 and 0.01
TwoPercent == <<2, 100>>

OnePercent == <<1, 100>>

Volatility(range_mean, mean_close) ==
    IF FracLess(FracMul(mean_close, TwoPercent), range_mean) THEN "High"
    ELSE IF FracLess(FracMul(mean_close, OnePercent), range_mean)
    THEN "Medium"
    ELSE "Low"

\* (matched_patterns / len(patterns_found)) * 100
MatchQuality(matched, found) == FracMul(Frac(matched, found), Hundred)

\* f"{x:.1f}" and f"{x:.0f}" of x >= 0: the digits of x * scale rounded to
\* the nearest integer, ties to even
FormatFixed(x, scale) ==
    LET n == x[1] * scale
        q == n \div x[2]
        r == n % x[2]
    IN IF 2 * r > x[2] THEN q + 1
       ELSE IF 2 * r < x[2] THEN q
       ELSE IF q % 2 = 0 THEN q
       ELSE q + 1

Tradable(strength) == strength \in {"Strong", "Moderate"}

Action_AnyStrength(pred, strength) ==
    IF pred = "BULLISH" THEN "BUY / LONG"
    ELSE IF pred = "BEARISH" THEN "SELL / SHORT"
    ELSE "HOLD / WAIT"

Action(pred, strength) ==
    IF pred = "BULLISH" /\ Tradable(strength) THEN "BUY / LONG"
    ELSE IF pred = "BEARISH" /\ Tradable(strength) THEN "SELL / SHORT"
    ELSE "HOLD / WAIT"

(***************************************************************************)
(* Inputs.                                                                 *)
(***************************************************************************)
NonDecreasing(n) ==
    {d \in [1..n -> 1..MaxDay] : \A i \in 1..(n - 1) : d[i] <= d[i + 1]}

\* candles whose low is the close and whose high is spread above it
Candles(days, closes, spread) ==
    [Date  |-> [i \in 1..Len(closes) |-> <<days[i], i>>],
     Close |-> closes,
     High  |-> [i \in 1..Len(closes) |-> closes[i] + spread],
     Low   |-> closes]

TableOf(days, closes) == Candles(days, closes, 0)

\* the closes of the training scenario
ScenarioCloses == <<1, 2, 3, 2, 3, 4, 3, 4, 5>>

\* a tab-separated file holding t
GoodFile(t) ==
    [exists |-> TRUE,
     read |-> [sep \in {"tab", "comma", "whitespace"} |->
                 IF sep = "tab" THEN "table" ELSE "unusable"],
     has_close |-> TRUE, table |-> t]

\* files of every kind: missing, unreadable with some or all separators,
\* without a Close column; those among them that load hold the scenario
OddFiles ==
    {[exists |-> e, read |-> r, has_close |-> c,
      table |-> TableOf([i \in 1..Len(ScenarioCloses) |-> 1], ScenarioCloses)] :
        e \in BOOLEAN, c \in BOOLEAN,
        r \in [{"tab", "comma", "whitespace"} -> Readings]}

BadFiles == {f \in OddFiles : load_historical_data(f) = None}

\* rows as they come: days out of order, a missing Date here, a missing
\* Close there
RawTable(days, closes) ==
    [Date  |-> [i \in 1..Len(days) |->
                  IF days[i] = 0 THEN NaT ELSE <<days[i], i>>],
     Close |-> closes,
     High  |-> closes,
     Low   |-> closes]

\* the rise and fall the long days repeat before their free tail
Cycle == <<1, 1, -1>>

\* the change of the close from candle i to candle i + 1 of a long day
Step(n, tail, i) ==
    IF i > n - 1 - Len(tail) THEN tail[i - (n - 1 - Len(tail))]
    ELSE Cycle[((i - 1) % Len(Cycle)) + 1]

RECURSIVE Walk(_, _, _)
Walk(n, tail, i) ==
    IF i = 1 THEN 100 ELSE Walk(n, tail, i - 1) + Step(n, tail, i - 1)

\* n closes that follow the cycle and end with the changes of tail
LongCloses(n, tail) == [i \in 1..n |-> Walk(n, tail, i)]

Tails == [1..MaxTail -> {-1, 0, 1}]

\* lead candles on day 1, the long day as day 2, one candle on day 3
LongTable(lead, n, tail, spread) ==
    Candles([i \in 1..(lead + n + 1) |->
                IF i <= lead THEN 1 ELSE IF i <= lead + n THEN 2 ELSE 3],
            [i \in 1..lead |-> 100 + i] \o LongCloses(n, tail) \o <<100>>,
            spread)

\* the data file is one trading day with any close sequence of up to MaxLen
\* prices, or a prefix of the scenario cut into trading days in any way, or
\* a long day of one candle less than the predictor needs or just enough,
\* between an optional earlier day and a later one
GoodInput ==
    \/ \E n \in 0..MaxLen : \E c \in [1..n -> 1..MaxClose] :
          file = GoodFile(TableOf([i \in 1..n |-> 1], c))
    \/ \E n \in 0..Len(ScenarioCloses) : \E d \in NonDecreasing(n) :
          file = GoodFile(TableOf(d, SubSeq(ScenarioCloses, 1, n)))
    \/ \E lead \in {0, 2} : \E n \in {MinCandles - 1, MinCandles} :
          \E tail \in Tails : \E spread \in 1..MaxSpread :
             file = GoodFile(LongTable(lead, n, tail, spread))
    \/ \E days \in [1..4 -> 0..2] : \E gap \in 0..4 :
          file = GoodFile(RawTable(days,
                     [i \in 1..4 |-> IF i = gap THEN NaN ELSE i]))

DateStrings == {<<"text", 0>>} \cup {<<"ymd", d>> : d \in 0..(MaxDay + 1)}

(***************************************************************************)
(* main().                                                                 *)
(***************************************************************************)
\* nothing of the predictor is bound yet
PredictorUnbound ==
    /\ patterns_found = None
    /\ total_up = None
    /\ total_down = None
    /\ total_flat = None
    /\ matched_patterns = None
    /\ confidence_up = None
    /\ confidence_down = None
    /\ confidence_flat = None
    /\ max_confidence = None
    /\ prediction = None
    /\ confidence = None
    /\ strength_score = None
    /\ signal_strength = None
    /\ consecutive = None
    /\ momentum_type = None
    /\ momentum = None
    /\ atr = None
    /\ volatility = None
    /\ action = None
    /\ report = None
    /\ results_file = None
    /\ stderr = <<>>

Init ==
    /\ file \in OddFiles \/ GoodInput
    /\ pc = "load"
    /\ df = None
    /\ total_days = None
    /\ total_candles = None
    /\ movements = None
    /\ transition_matrix = None
    /\ pattern_counts = None
    /\ unique_patterns = None
    /\ avg_frequency = None
    /\ available_dates = None
    /\ prediction_date_str = None
    /\ prediction_date = None
    /\ pred_index = None
    /\ previous_day = None
    /\ prev_day_df = None
    /\ num_candles = None
    /\ stdout = <<>>
    /\ exit_status = None
    /\ first_run = None
    /\ PredictorUnbound
    /\ read_attempts = None

\* print the diagnostic and start over
Exit_Retry(msgs) ==
    /\ pc' = "load"
    /\ stdout' = stdout \o msgs
    /\ exit_status' = exit_status

Exit(msgs) ==
    /\ pc' = "exit"
    /\ stdout' = stdout \o msgs
    /\ exit_status' = Some(1)

\* lines 101-113
LoadData ==
    /\ pc = "load"
    /\ read_attempts' = Some(ReadAttempts(file))
    /\ LET t == load_historical_data(file)
       IN IF t = None
          THEN /\ Exit(<<"LOADING DATA">> \o LoaderMessages(file)
                         \o <<"Error: Could not load data">>)
               /\ UNCHANGED <<df, total_days, total_candles>>
          ELSE /\ df' = t
               /\ total_days' = Some(Cardinality(Unique(TradingDay(Val(t)))))
               /\ total_candles' = Some(Len(Val(t).Date))
               /\ pc' = "train"
               /\ stdout' = stdout \o <<"LOADING DATA", "Loaded">>
               /\ UNCHANGED exit_status
    /\ UNCHANGED <<file, movements, transition_matrix, pattern_counts,
                   unique_patterns, avg_frequency, available_dates,
                   prediction_date_str, prediction_date, pred_index,
                   previous_day, prev_day_df, num_candles, first_run, predictorVars>>

\* lines 115-124
TrainModel ==
    /\ pc = "train"
    /\ LET r == build_markov_model(NoFrame, Val(df))
       IN IF TrainingFailed(r.transition_matrix)
          THEN /\ Exit(<<"TRAINING MARKOV MODEL",
                         "ERROR: Need at least 4 rows of data",
                         "Error: Model training failed">>)
               /\ UNCHANGED <<movements, transition_matrix, pattern_counts,
                              unique_patterns, avg_frequency>>
          ELSE /\ movements' = r.movements
               /\ transition_matrix' = r.transition_matrix
               /\ pattern_counts' = r.pattern_counts
               /\ unique_patterns' =
                      Some(Cardinality(DOMAIN Val(r.transition_matrix)))
               /\ avg_frequency' =
                      Some(AvgFrequency(Val(r.pattern_counts),
                               Cardinality(DOMAIN Val(r.transition_matrix))))
               /\ pc' = "select_date"
               /\ stdout' = stdout \o <<"TRAINING MARKOV MODEL", "Trained">>
               /\ UNCHANGED exit_status
    /\ UNCHANGED <<file, df, total_days, total_candles, available_dates,
                   prediction_date_str, prediction_date, pred_index,
                   previous_day, prev_day_df, num_candles, first_run, predictorVars,
                   read_attempts>>

\* lines 126-148
SelectDate ==
    /\ pc = "select_date"
    /\ \E s \in DateStrings :
        LET dates == Sorted(Unique(TradingDay(Val(df))))
            parsed == ParseDate(s)
            d     == Val(parsed)
            idx   == ListIndex(dates, d)
        IN /\ available_dates' = Some(dates)
           /\ prediction_date_str' = Some(s)
           /\ IF parsed = None
              THEN /\ Exit(<<"DATE SELECTION", "Error: Invalid date format">>)
                   /\ UNCHANGED <<prediction_date, pred_index, previous_day>>
              ELSE IF d \notin Unique(dates)
              THEN /\ Exit(<<"DATE SELECTION", "Error: Date not in dataset">>)
                   /\ prediction_date' = Some(d)
                   /\ UNCHANGED <<pred_index, previous_day>>
              ELSE IF NoPreviousDay(idx)
              THEN /\ Exit(<<"DATE SELECTION",
                             "Error: No previous day data available">>)
                   /\ prediction_date' = Some(d)
                   /\ pred_index' = Some(idx)
                   /\ UNCHANGED previous_day
              ELSE /\ prediction_date' = Some(d)
                   /\ pred_index' = Some(idx)
                   /\ previous_day' = Some(PreviousDay(dates, idx))
                   /\ pc' = "slice_day"
                   /\ stdout' = stdout \o <<"DATE SELECTION">>
                   /\ UNCHANGED exit_status
    /\ UNCHANGED <<file, df, total_days, total_candles, movements,
                   transition_matrix, pattern_counts, unique_patterns,
                   avg_frequency, prev_day_df, num_candles, first_run, predictorVars,
                   read_attempts>>

\* lines 150-152
SlicePreviousDay ==
    /\ pc = "slice_day"
    /\ prev_day_df' = Some(DayRows(Val(df), Val(previous_day)))
    /\ num_candles' = Some(Len(DayRows(Val(df), Val(previous_day)).Date))
    /\ pc' = "analyze"
    /\ stdout' = stdout \o <<"Analyzing">>
    /\ UNCHANGED <<file, df, total_days, total_candles, movements,
                   transition_matrix, pattern_counts, unique_patterns,
                   avg_frequency, available_dates, prediction_date_str,
                   prediction_date, pred_index, previous_day, exit_status,
                   first_run, predictorVars,
                   read_attempts>>

\* lines 154-156
CheckCandles ==
    /\ pc = "analyze"
    /\ IF InsufficientData(Val(num_candles))
       THEN Exit(<<"Error: Insufficient intraday data for prediction">>)
       ELSE /\ pc' = "encode"
            /\ UNCHANGED <<stdout, exit_status>>
    /\ UNCHANGED <<loadedVars, prev_day_df, predictorVars>>

\* lines 158-170
EncodeDay ==
    /\ pc = "encode"
    /\ LET t == Val(prev_day_df)
           col == MovementColumn(t.Close)
       IN /\ prev_day_df' = Some([Date |-> t.Date, Close |-> t.Close,
                                   High |-> t.High, Low |-> t.Low,
                                   Movement |-> col])
          /\ patterns_found' = Some(PatternsFound(col))
    /\ pc' = "match"
    /\ UNCHANGED <<loadedVars, stdout, exit_status, matchVars, scoreVars,
                   reportVars, saveVars>>

\* lines 172-187
MatchPatterns ==
    /\ pc = "match"
    /\ LET r == MatchLoop(Val(transition_matrix), Val(patterns_found), 1,
                          NoTotals)
       IN /\ total_up' = Some(r.total_up)
          /\ total_down' = Some(r.total_down)
          /\ total_flat' = Some(r.total_flat)
          /\ matched_patterns' = Some(r.matched_patterns)
          /\ IF NoMatch(r.matched_patterns)
             THEN Exit(<<"Error: No matching patterns found in trained model">>)
             ELSE /\ pc' = "score"
                  /\ UNCHANGED <<stdout, exit_status>>
    /\ transition_matrix' =
          Some(LookupLoop(Val(transition_matrix), Val(patterns_found), 1))
    /\ UNCHANGED <<file, df, total_days, total_candles, movements,
                   pattern_counts, unique_patterns, avg_frequency,
                   available_dates, prediction_date_str, prediction_date,
                   pred_index, previous_day, num_candles, first_run,
                   read_attempts>>
    /\ UNCHANGED <<prev_day_df, patterns_found, scoreVars, reportVars,
                   saveVars>>

\* lines 189-230
Score ==
    /\ pc = "score"
    /\ LET total == FracAdd(FracAdd(Val(total_up), Val(total_down)),
                            Val(total_flat))
           up    == Confidence(Val(total_up), total)
           down  == Confidence(Val(total_down), total)
           flat  == Confidence(Val(total_flat), total)
           t     == Val(prev_day_df)
           last_5 == Tail5(t.Movement)
       IN /\ confidence_up' = Some(up)
          /\ confidence_down' = Some(down)
          /\ confidence_flat' = Some(flat)
          /\ max_confidence' = Some(Max3(up, down, flat))
          /\ prediction' = Some(Prediction(up, down, flat))
          /\ confidence' = Some(ChosenConfidence(up, down, flat))
          /\ strength_score' = Some(StrengthScore(Max3(up, down, flat)))
          /\ signal_strength' =
                 Some(SignalStrength(StrengthScore(Max3(up, down, flat))))
          /\ consecutive' = Some(Consecutive(last_5))
          /\ momentum_type' = Some(MomentumType(last_5, Consecutive(last_5)))
          /\ momentum' = Some(Momentum(Consecutive(last_5)))
          /\ atr' = Some(ATR(t))
          /\ volatility' = Some(Volatility(ATR(t), Mean(t.Close)))
    /\ pc' = "report"
    /\ UNCHANGED <<loadedVars, prev_day_df, stdout, exit_status,
                   patterns_found, matchVars, reportVars, saveVars>>

\* what both the console report and the results file show, lines 235-280
\* and 299-342
Shown(act) ==
    [prediction_date |-> Val(prediction_date),
     previous_day |-> Val(previous_day),
     total_candles |-> Val(total_candles),
     total_days |-> Val(total_days),
     unique_patterns |-> Val(unique_patterns),
     avg_frequency |-> FormatFixed(Val(avg_frequency), 10),
     prediction |-> Val(prediction),
     confidence |-> FormatFixed(Val(confidence), 10),
     signal_strength |-> Val(signal_strength),
     strength_score |-> FormatFixed(Val(strength_score), 1),
     confidence_up |-> FormatFixed(Val(confidence_up), 10),
     confidence_down |-> FormatFixed(Val(confidence_down), 10),
     confidence_flat |-> FormatFixed(Val(confidence_flat), 10),
     momentum |-> Val(momentum),
     consecutive |-> Val(consecutive),
     momentum_type |-> Val(momentum_type),
     volatility |-> Val(volatility),
     atr |-> FormatFixed(Val(atr), 100),
     patterns_analyzed |-> Len(Val(patterns_found)),
     patterns_matched |-> Val(matched_patterns),
     match_quality |->
         FormatFixed(MatchQuality(Val(matched_patterns),
                                  Len(Val(patterns_found))), 10),
     action |-> act,
     warning |-> Val(signal_strength) = "Weak"]

\* lines 232-284
Report ==
    /\ pc = "report"
    /\ action' = Some(Action(Val(prediction), Val(signal_strength)))
    /\ report' = Some(Shown(Action(Val(prediction), Val(signal_strength))))
    /\ stdout' = stdout \o <<"PREDICTION RESULT", "TRAINING DATA SUMMARY",
                              "MARKET TREND PREDICTION",
                              "SUPPORTING INDICATORS", "PATTERN ANALYSIS",
                              "RECOMMENDED ACTION">>
    /\ pc' = "save"
    /\ UNCHANGED <<loadedVars, prev_day_df, exit_status, patterns_found,
                   matchVars, scoreVars, saveVars>>

\* the run ends without a word about the error
Crash_Silent(cause) ==
    /\ pc' = "exit"
    /\ stderr' = stderr
    /\ exit_status' = Some(1)
    /\ UNCHANGED stdout

\* the uncaught OSError of os.makedirs, open or write ends the run with a
\* traceback that names it
Crash(cause) ==
    /\ pc' = "exit"
    /\ stderr' = stderr \o <<"Traceback", cause>>
    /\ exit_status' = Some(1)
    /\ UNCHANGED stdout

\* a results file that was opened and not written to its end
Truncated == [truncated |-> TRUE]

\* lines 286-346; whether the folder exists, can be made and the file can
\* be opened and written is up to the file system
SaveResults ==
    /\ pc = "save"
    /\ \E folder_exists, makedirs_ok, open_ok, write_ok \in BOOLEAN :
          IF ~folder_exists /\ ~makedirs_ok
          THEN /\ Crash("OSError: makedirs")
               /\ UNCHANGED results_file
          ELSE IF ~open_ok
          THEN /\ Crash("OSError: open")
               /\ UNCHANGED results_file
          ELSE IF ~write_ok
          THEN /\ Crash("OSError: write")
               /\ results_file' = Some(Truncated)
          ELSE /\ results_file' = Some(Shown(Val(action)))
               /\ stdout' = stdout \o <<"Prediction results saved">>
               /\ pc' = "done"
               /\ exit_status' = Some(0)
               /\ UNCHANGED stderr
    /\ UNCHANGED <<loadedVars, prev_day_df, patterns_found, matchVars,
                   scoreVars, reportVars>>

Next ==
    \/ LoadData
    \/ TrainModel
    \/ SelectDate
    \/ SlicePreviousDay
    \/ CheckCandles
    \/ EncodeDay
    \/ MatchPatterns
    \/ Score
    \/ Report
    \/ SaveResults

Spec == Init /\ [][Next]_vars

(***************************************************************************)
(* The predictor on a long day and a model handed to it, lines 158-346.    *)
(***************************************************************************)
\* distributions as build_markov_model stores them: the outcomes seen, with
\* probabilities that add up to one
Only(sym) == sym :> One

Split(a, b) == (a :> <<1, 2>>) @@ (b :> <<1, 2>>)

Even == [sym \in Symbols |-> <<1, 3>>]

Weighted(a, b, p) == (a :> p) @@ (b :> FracSub(One, p))

\* the shares of the leading outcome that put the strength score on 70, on
\* 40, and between the two
Shares == {<<79999, 100000>>, <<29999, 50000>>, <<3, 4>>}

Dists ==
    {Only(sym) : sym \in Symbols}
      \cup {Split(ab[1], ab[2]) :
               ab \in {x \in Symbols \X Symbols : x[1] # x[2]}}
      \cup {Even}
      \cup {Weighted(ab[1], ab[2], p) :
               ab \in {x \in Symbols \X Symbols : x[1] # x[2]}, p \in Shares}

\* every pattern has the distribution d
Uniform(d) == [p \in Patterns |-> d]

\* only the patterns that end with sym are known, and repeat it
Ending(sym) == [p \in {q \in Patterns : q[3] = sym} |-> Only(sym)]

\* every pattern repeats its last movement
Echo == [p \in Patterns |-> Only(p[3])]

PredictModels ==
    {Uniform(d) : d \in Dists} \cup {Ending(sym) : sym \in Symbols}
      \cup {Echo, EmptyDict}

InitPredict ==
    /\ \E tail \in Tails : \E spread \in 1..MaxSpread :
          file = GoodFile(Candles([i \in 1..MinCandles |-> 1],
                                  LongCloses(MinCandles, tail), spread))
    /\ df = Some(file.table)
    /\ prev_day_df = Some(file.table)
    /\ num_candles = Some(Len(file.table.Date))
    /\ \E tm \in PredictModels :
          /\ transition_matrix = Some(tm)
          /\ unique_patterns = Some(Cardinality(DOMAIN tm))
    /\ pc = "encode"
    /\ total_days = Some(1)
    /\ total_candles = Some(Len(file.table.Date))
    /\ movements = None
    /\ pattern_counts = None
    /\ avg_frequency = Some(Zero)
    /\ available_dates = None
    /\ prediction_date_str = None
    /\ prediction_date = Some(2)
    /\ pred_index = Some(1)
    /\ previous_day = Some(1)
    /\ stdout = <<>>
    /\ exit_status = None
    /\ first_run = None
    /\ PredictorUnbound
    /\ read_attempts = None

NextPredict ==
    \/ EncodeDay
    \/ MatchPatterns
    \/ Score
    \/ Report
    \/ SaveResults

SpecPredict == InitPredict /\ [][NextPredict]_vars

\* main from its start and the predictor from its harness, side by side
InitRun == Init \/ InitPredict

SpecRun == InitRun /\ [][Next]_vars

(***************************************************************************)
(* main run twice on one data file, as two processes.                      *)
(***************************************************************************)
\* the console without its closing line, which depends on the file system
Console(out) == SelectSeq(out, LAMBDA l : l # "Prediction results saved")

\* what a finished run has computed and printed
Transcript ==
    [request |-> prediction_date_str,
     console |-> Console(stdout),
     report |-> report,
     model |-> <<transition_matrix, pattern_counts, unique_patterns,
                 avg_frequency>>,
     day |-> <<prediction_date, previous_day, num_candles, patterns_found>>,
     totals |-> matchVars,
     scores |-> scoreVars,
     action |-> action]

\* the second run is asked for any date
AnyRequest(s) == TRUE

\* the second run is asked for the date the first one was asked for
SameRequest(s) == first_run = None \/ Val(first_run).request = Some(s)

RerunSelectDate == SelectDate /\ SameRequest(Val(prediction_date_str'))

\* the first process has ended; a new one starts on the same file
Restart ==
    /\ pc \in {"exit", "done"}
    /\ first_run = None
    /\ first_run' = Some(Transcript)
    /\ pc' = "load"
    /\ df' = None
    /\ total_days' = None
    /\ total_candles' = None
    /\ movements' = None
    /\ transition_matrix' = None
    /\ pattern_counts' = None
    /\ unique_patterns' = None
    /\ avg_frequency' = None
    /\ available_dates' = None
    /\ prediction_date_str' = None
    /\ prediction_date' = None
    /\ pred_index' = None
    /\ previous_day' = None
    /\ prev_day_df' = None
    /\ num_candles' = None
    /\ stdout' = <<>>
    /\ exit_status' = None
    /\ patterns_found' = None
    /\ total_up' = None
    /\ total_down' = None
    /\ total_flat' = None
    /\ matched_patterns' = None
    /\ confidence_up' = None
    /\ confidence_down' = None
    /\ confidence_flat' = None
    /\ max_confidence' = None
    /\ prediction' = None
    /\ confidence' = None
    /\ strength_score' = None
    /\ signal_strength' = None
    /\ consecutive' = None
    /\ momentum_type' = None
    /\ momentum' = None
    /\ atr' = None
    /\ volatility' = None
    /\ action' = None
    /\ report' = None
    /\ results_file' = None
    /\ stderr' = <<>>
    /\ read_attempts' = None
    /\ UNCHANGED file

NextRerun ==
    \/ LoadData
    \/ TrainModel
    \/ RerunSelectDate
    \/ SlicePreviousDay
    \/ CheckCandles
    \/ EncodeDay
    \/ MatchPatterns
    \/ Score
    \/ Report
    \/ SaveResults
    \/ Restart

SpecRerun == Init /\ [][NextRerun]_vars

(***************************************************************************)
(* build_markov_model called twice on one table.                           *)
(***************************************************************************)
InitRetrain ==
    /\ GoodInput
    /\ pc = "first_call"
    /\ df = load_historical_data(file)
    /\ total_days = None
    /\ total_candles = None
    /\ movements = None
    /\ transition_matrix = None
    /\ pattern_counts = None
    /\ unique_patterns = None
    /\ avg_frequency = None
    /\ available_dates = None
    /\ prediction_date_str = None
    /\ prediction_date = None
    /\ pred_index = None
    /\ previous_day = None
    /\ prev_day_df = None
    /\ num_candles = None
    /\ stdout = <<>>
    /\ exit_status = None
    /\ first_run = None
    /\ PredictorUnbound
    /\ read_attempts = None

\* what the tables of the last call would be, had they outlived it
LeftBehind ==
    IF transition_matrix = None THEN NoFrame
    ELSE [transition_matrix |-> Val(transition_matrix),
          pattern_counts |-> Val(pattern_counts)]

Call(frame, next) ==
    LET r == build_markov_model(frame, Val(df))
    IN /\ movements' = r.movements
       /\ transition_matrix' = r.transition_matrix
       /\ pattern_counts' = r.pattern_counts
       /\ pc' = next
       /\ UNCHANGED <<file, df, total_days, total_candles, unique_patterns,
                      avg_frequency, available_dates, prediction_date_str,
                      prediction_date, pred_index, previous_day, prev_day_df,
                      num_candles, stdout, exit_status, predictorVars,
                      read_attempts>>

FirstCall ==
    /\ pc = "first_call"
    /\ Call(NoFrame, "second_call")
    /\ first_run' = Some(<<transition_matrix', pattern_counts'>>)

SecondCall ==
    /\ pc = "second_call"
    /\ Call(LeftBehind, "compared")
    /\ UNCHANGED first_run

NextRetrain ==
    \/ FirstCall
    \/ SecondCall

SpecRetrain == InitRetrain /\ [][NextRetrain]_vars

(***************************************************************************)
(* Properties.                                                             *)
(***************************************************************************)
Closes == Val(df).Close

Range(seq) == {seq[i] : i \in DOMAIN seq}

\* build_markov_model has been called by main
TrainingRan == df # None /\ pc \notin {"load", "train"}

\* build_markov_model has returned a model
Trained == transition_matrix # None

\* m is the symbol sequence of the closes c: one symbol per consecutive pair
EncodesCloses(c, m) ==
    /\ Len(m) = Len(c) - 1
    /\ \A k \in 1..Len(m) :
        /\ m[k] \in Symbols
        /\ m[k] = "UP" <=> c[k + 1] > c[k]
        /\ m[k] = "DOWN" <=> c[k + 1] < c[k]
        /\ m[k] = "FLAT" <=> c[k + 1] = c[k]

\* the positions of m that have three predecessors, and so a pattern
Outcomes(m) == {k \in 1..Len(m) : k > 3}

Occurrences(m, p) ==
    Cardinality({k \in Outcomes(m) : <<m[k - 3], m[k - 2], m[k - 1]>> = p})

OccurrencesWith(m, p, s) ==
    Cardinality({k \in Outcomes(m) :
                    <<m[k - 3], m[k - 2], m[k - 1]>> = p /\ m[k] = s})

Certain(s) == [x \in {s} |-> One]

\* C1, as stated: for every close sequence of length N >= 2 the encoder
\* yields N-1 symbols, UP / DOWN / FLAT by strict comparison of neighbours.
C1_EncoderFromTwoCloses ==
    (TrainingRan /\ Len(Closes) >= 2) =>
        (movements # None /\ EncodesCloses(Closes, Val(movements)))

\* C1, amended: for every close sequence of length N >= 4 the encoder yields
\* exactly N-1 symbols, each in {UP, DOWN, FLAT}, symbol i being UP iff the
\* next close is greater, DOWN iff it is smaller, FLAT iff it is equal; a
\* shorter sequence is rejected before any symbol is produced.
C1_EncoderFromFourCloses ==
    TrainingRan =>
        /\ Len(Closes) >= MinRows =>
              (movements # None /\ EncodesCloses(Closes, Val(movements)))
        /\ Len(Closes) < MinRows => movements = None

C1_Witness ==
    /\ TrainingRan
    /\ movements # None
    /\ Symbols \subseteq Range(Val(movements))

\* C2: for every pattern that is a key of the trained model, its outcome
\* probabilities sum to exactly 1.
C2_ProbabilitiesSumToOne ==
    Trained =>
        \A p \in DOMAIN Val(transition_matrix) :
            FracSum(Val(transition_matrix)[p]) = One

\* a pattern followed by two different outcomes
C2_Witness ==
    /\ Trained
    /\ \E p \in DOMAIN Val(transition_matrix) :
        Cardinality(DOMAIN Val(transition_matrix)[p]) >= 2

\* C3: the whole dataset is one movement stream, across trading days; every
\* position i >= 3 of it counts once, outcome movements[i] under the pattern
\* of the three symbols before it, and model[p][s] is the number of such
\* positions with pattern p and outcome s over the number with pattern p.
C3_ModelIsFrequencyOverWholeStream ==
    Trained =>
        LET m  == Val(movements)
            tm == Val(transition_matrix)
        IN /\ EncodesCloses(Closes, m)
           /\ Len(m) = Val(total_candles) - 1
           /\ DOMAIN tm = {p \in Patterns : Occurrences(m, p) >= 1}
           /\ DOMAIN Val(pattern_counts) = DOMAIN tm
           /\ \A p \in DOMAIN tm : \A s \in Symbols :
                /\ s \in DOMAIN tm[p] <=> OccurrencesWith(m, p, s) >= 1
                /\ s \in DOMAIN tm[p] =>
                     /\ Val(pattern_counts)[p][s] = OccurrencesWith(m, p, s)
                     /\ tm[p][s] = Frac(OccurrencesWith(m, p, s),
                                        Occurrences(m, p))

\* a stored pattern seen twice, one of whose windows spans two trading days
C3_Witness ==
    /\ Trained
    /\ pc = "select_date"
    /\ \E k \in Outcomes(Val(movements)) :
        /\ Val(df).Date[k - 3][1] # Val(df).Date[k + 1][1]
        /\ Occurrences(Val(movements),
                       <<Val(movements)[k - 3], Val(movements)[k - 2],
                         Val(movements)[k - 1]>>) >= 2

\* C4: an outcome is a key of a pattern's distribution iff it was seen after
\* that pattern, every stored probability is in (0,1], a pattern followed by
\* the same outcome s at each occurrence has the distribution {s: 1.0}, and
\* closes 1,2,3,2,3,4,3,4,5 give UP,UP,DOWN,UP,UP,DOWN,UP,UP and
\* model[(UP,UP,DOWN)] = {UP: 1.0}.
C4_SingleOutcomeDistribution ==
    Trained =>
        LET m  == Val(movements)
            tm == Val(transition_matrix)
        IN /\ \A p \in DOMAIN tm : \A s \in Symbols :
                /\ s \in DOMAIN tm[p] <=> OccurrencesWith(m, p, s) >= 1
                /\ s \in DOMAIN tm[p] =>
                     (0 < tm[p][s][1] /\ tm[p][s][1] <= tm[p][s][2])
                /\ OccurrencesWith(m, p, s) = Occurrences(m, p) =>
                     tm[p] = Certain(s)
           /\ Closes = ScenarioCloses =>
                /\ m = <<"UP", "UP", "DOWN", "UP", "UP", "DOWN", "UP", "UP">>
                /\ <<"UP", "UP", "DOWN">> \in DOMAIN tm
                /\ tm[<<"UP", "UP", "DOWN">>] = Certain("UP")

C4_Witness ==
    /\ Trained
    /\ Closes = ScenarioCloses
    /\ Val(pattern_counts)[<<"UP", "UP", "DOWN">>]["UP"] = 2

\* C5: a second call of build_markov_model on the same closes returns the
\* same transition matrix and the same counts as the first, whatever the
\* first call left behind.
C5_RetrainIdentical ==
    pc = "compared" =>
        <<transition_matrix, pattern_counts>> = Val(first_run)

C5_Witness ==
    /\ pc = "compared"
    /\ Trained
    /\ DOMAIN Val(transition_matrix) # {}

\* C6, as stated: a pattern observed with a following outcome exactly once
\* is not a key of the transition model.
C6_OnceSeenPatternExcluded ==
    Trained =>
        \A p \in Patterns :
            Occurrences(Val(movements), p) = 1 =>
                p \notin DOMAIN Val(transition_matrix)

\* C6, amended: a pattern observed with a following outcome exactly once is
\* a key of the transition model, stored with the distribution {s: 1.0} of
\* its single outcome s.
C6_OnceSeenPatternStored ==
    Trained =>
        \A p \in Patterns :
            Occurrences(Val(movements), p) = 1 =>
                /\ p \in DOMAIN Val(transition_matrix)
                /\ \E s \in Symbols :
                    /\ OccurrencesWith(Val(movements), p, s) = 1
                    /\ Val(transition_matrix)[p] = Certain(s)

C6_Witness ==
    /\ Trained
    /\ \E p \in DOMAIN Val(transition_matrix) :
        Occurrences(Val(movements), p) = 1

LastLine == stdout[Len(stdout)]

TrainingFailureReported ==
    /\ pc = "exit"
    /\ exit_status = Some(1)
    /\ transition_matrix = None
    /\ LastLine = "Error: Model training failed"

\* C7, as stated: training fails whenever there are fewer than 4 candles,
\* and 4 or more candles form at least one pattern+outcome pair.
C7_FourCandlesSuffice ==
    TrainingRan =>
        /\ Len(Closes) < MinRows => TrainingFailureReported
        /\ Len(Closes) >= MinRows =>
              (Trained /\ DOMAIN Val(transition_matrix) # {})

\* C7, amended: training fails whenever there are fewer than 4 candles and
\* succeeds otherwise; 5 or more candles form at least one pattern+outcome
\* pair, exactly 4 candles form none.
C7_FiveCandlesSuffice ==
    TrainingRan =>
        /\ Len(Closes) < MinRows => TrainingFailureReported
        /\ Len(Closes) >= MinRows =>
              (Trained /\ "Error: Model training failed" \notin Range(stdout))
        /\ Len(Closes) > MinRows =>
              (Trained /\ DOMAIN Val(transition_matrix) # {})
        /\ Len(Closes) = MinRows =>
              (Trained /\ DOMAIN Val(transition_matrix) = {})

C7_Witness ==
    /\ TrainingRan
    /\ Len(Closes) = MinRows - 1
    /\ TrainingFailureReported

\* C8, as stated: whenever no (pattern, outcome) pair was observed, the run
\* reports a training failure and terminates.
C8_EmptyModelFailsTraining ==
    (TrainingRan /\ (Trained => DOMAIN Val(transition_matrix) = {})) =>
        TrainingFailureReported

\* C8, amended: an empty pattern table is not a training failure: with
\* exactly 4 candles (3 movements, no pair) the model is empty but not None,
\* no training failure is reported, and the run goes on to date selection
\* with 0 unique patterns and an average frequency of 0.
C8_EmptyModelContinues ==
    (TrainingRan /\ Len(Closes) = MinRows) =>
        /\ transition_matrix = Some(EmptyDict)
        /\ unique_patterns = Some(0)
        /\ avg_frequency = Some(<<0, 1>>)
        /\ "Error: Model training failed" \notin Range(stdout)
        /\ pc = "select_date" \/ "DATE SELECTION" \in Range(stdout)

C8_Witness ==
    /\ pc = "select_date"
    /\ transition_matrix = Some(EmptyDict)

\* the trading days of the dataset
Days == Unique(TradingDay(Val(df)))

\* main has read a well-formed prediction date
DateRead == prediction_date # None /\ pc \notin {"load", "train", "select_date"}

\* the run has ended with msg and status 1, before anything was predicted
HaltedWith(msg) ==
    /\ pc = "exit"
    /\ exit_status = Some(1)
    /\ LastLine = msg
    /\ previous_day = None
    /\ prev_day_df = None
    /\ num_candles = None
    /\ ~ENABLED Next

\* C9: a prediction date that is the earliest trading day ends the run with
\* 'No previous day data available', one that is no trading day of the
\* dataset ends it with 'Date not in dataset'; nothing is predicted.
C9_DateErrors ==
    DateRead =>
        /\ (\A e \in Days : Val(prediction_date) <= e) /\
               Val(prediction_date) \in Days =>
              HaltedWith("Error: No previous day data available")
        /\ Val(prediction_date) \notin Days =>
              HaltedWith("Error: Date not in dataset")

C9_Witness ==
    /\ DateRead
    /\ Val(total_days) >= 2
    /\ Val(prediction_date) \in Days
    /\ \A e \in Days : Val(prediction_date) <= e
    /\ LastLine = "Error: No previous day data available"

\* s holds exactly the rows of t whose calendar date is day
SliceOf(s, t, day) ==
    /\ \A i \in Rows(s) : s.Date[i][1] = day
    /\ {<<s.Date[i], s.Close[i]>> : i \in Rows(s)}
         = {<<t.Date[i], t.Close[i]>> : i \in {j \in Rows(t) : t.Date[j][1] = day}}
    /\ Len(s.Date) = Cardinality({j \in Rows(t) : t.Date[j][1] = day})
    /\ Len(s.Close) = Len(s.Date)

\* C10: for an accepted prediction date D the previous day P is a trading
\* day before D with no trading day strictly between them, and the candles
\* handed to the predictor are exactly those dated P.
C10_ImmediatePredecessor ==
    pc \in {"slice_day", "analyze"} =>
        LET P == Val(previous_day)
            D == Val(prediction_date)
        IN /\ P \in Days
           /\ D \in Days
           /\ P < D
           /\ ~\E e \in Days : P < e /\ e < D
           /\ pc = "analyze" =>
                /\ SliceOf(Val(prev_day_df), Val(df), P)
                /\ num_candles = Some(Len(Val(prev_day_df).Date))

\* a weekend between P and D
C10_Witness ==
    /\ pc = "analyze"
    /\ Val(prediction_date) - Val(previous_day) >= 2
    /\ Val(num_candles) >= 2
    /\ Val(num_candles) < Val(total_candles) - 1

\* the run ended on the minimum-candle check
RejectedForCandles ==
    /\ pc = "exit"
    /\ stdout # <<>>
    /\ LastLine = "Error: Insufficient intraday data for prediction"

\* the run got beyond the minimum-candle check
PastCandleCheck ==
    \/ pc \in {"encode", "match", "score", "report", "save", "done"}
    \/ pc = "exit" /\ num_candles # None /\ ~RejectedForCandles

\* the number of candles df holds for a trading day
CandlesOn(day) == Cardinality({i \in Rows(Val(df)) : Val(df).Date[i][1] = day})

\* C11: the predictor refuses a previous day with fewer than 10 candles
\* ("Insufficient intraday data", status 1, nothing predicted) and goes on
\* with 10 or more; the count is that of the previous day, whatever the
\* number of candles on the prediction date.
C11_MinimumCandles ==
    /\ RejectedForCandles =>
         /\ Val(num_candles) <= 9
         /\ exit_status = Some(1)
         /\ patterns_found = None
         /\ ~ENABLED Next
    /\ PastCandleCheck => Val(num_candles) >= 10
    /\ num_candles # None => Val(num_candles) = CandlesOn(Val(previous_day))

\* a previous day of exactly 10 candles is accepted although the prediction
\* date has a single candle
C11_Witness ==
    /\ pc = "encode"
    /\ Val(num_candles) = 10
    /\ CandlesOn(Val(prediction_date)) = 1

\* a previous day of 9 candles is refused
C11_NineRefused == RejectedForCandles /\ Val(num_candles) = 9

\* the run ended on the no-match check
RejectedForNoMatch ==
    /\ pc = "exit"
    /\ stdout # <<>>
    /\ LastLine = "Error: No matching patterns found in trained model"

NoConfidenceYet ==
    /\ confidence_up = None
    /\ confidence_down = None
    /\ confidence_flat = None
    /\ max_confidence = None
    /\ confidence = None
    /\ prediction = None

\* C12: when no local pattern of the day is a key of the model, the run ends
\* with 'No matching patterns found in trained model' and status 1 and no
\* confidence is ever computed; the confidences are computed only from a
\* non-zero total, and the error is given for no other match count.
C12_NoMatchIsFatal ==
    /\ matched_patterns = Some(0) =>
         /\ RejectedForNoMatch
         /\ exit_status = Some(1)
         /\ NoConfidenceYet
         /\ ~ENABLED Next
    /\ RejectedForNoMatch => matched_patterns = Some(0)
    /\ confidence_up # None =>
         /\ Val(matched_patterns) >= 1
         /\ FracAdd(FracAdd(Val(total_up), Val(total_down)), Val(total_flat))
              # Zero

\* eight local patterns and a model that knows other patterns only
C12_Witness ==
    /\ matched_patterns = Some(0)
    /\ Len(Val(patterns_found)) = 8
    /\ DOMAIN Val(transition_matrix) # {}
    /\ pc = "exit"

Percent(x) == ~FracLess(x, Zero) /\ ~FracLess(Hundred, x)

\* C13: once at least one pattern has matched, confidence_up,
\* confidence_down and confidence_flat are each between 0 and 100 and add
\* up to 100.
C13_ConfidencesArePercentages ==
    confidence_up # None =>
        /\ Val(matched_patterns) >= 1
        /\ Percent(Val(confidence_up))
        /\ Percent(Val(confidence_down))
        /\ Percent(Val(confidence_flat))
        /\ FracAdd(FracAdd(Val(confidence_up), Val(confidence_down)),
                   Val(confidence_flat)) = Hundred

\* three different non-zero confidences
C13_Witness ==
    /\ confidence_up # None
    /\ FracLess(Zero, Val(confidence_flat))
    /\ FracLess(Val(confidence_flat), Val(confidence_up))
    /\ FracLess(Val(confidence_up), Val(confidence_down))

\* x >= y
AtLeast(x, y) == ~FracLess(x, y)

\* C14: the prediction is the class of largest confidence with ties going to
\* UP, then DOWN, then FLAT: BULLISH iff confidence_up is the maximum (all
\* three equal included), BEARISH iff confidence_down is the maximum and
\* confidence_up is strictly below it, NEUTRAL iff confidence_flat is
\* strictly above both; the reported confidence is that of the chosen class.
C14_ArgmaxWithTies ==
    prediction # None =>
        LET up   == Val(confidence_up)
            down == Val(confidence_down)
            flat == Val(confidence_flat)
        IN /\ Val(prediction) \in {"BULLISH", "BEARISH", "NEUTRAL"}
           /\ Val(prediction) = "BULLISH" <=>
                 AtLeast(up, down) /\ AtLeast(up, flat)
           /\ Val(prediction) = "BEARISH" <=>
                 FracLess(up, down) /\ AtLeast(down, flat)
           /\ Val(prediction) = "NEUTRAL" <=>
                 FracLess(up, flat) /\ FracLess(down, flat)
           /\ Val(prediction) = "BULLISH" => confidence = confidence_up
           /\ Val(prediction) = "BEARISH" => confidence = confidence_down
           /\ Val(prediction) = "NEUTRAL" => confidence = confidence_flat
           /\ max_confidence = confidence

\* all three confidences equal: BULLISH
C14_Witness ==
    /\ prediction = Some("BULLISH")
    /\ confidence_up = confidence_down
    /\ confidence_down = confidence_flat

\* DOWN and FLAT tie above UP: BEARISH
C14_TieDownFlat ==
    /\ prediction = Some("BEARISH")
    /\ confidence_down = confidence_flat

\* FLAT alone on top: NEUTRAL
C14_FlatOnTop == prediction = Some("NEUTRAL")

\* UP and FLAT tie above DOWN
C14_TieUpFlat ==
    /\ prediction # None
    /\ confidence_up = confidence_flat
    /\ FracLess(Val(confidence_down), Val(confidence_up))

Seventy == <<70, 1>>

Forty == <<40, 1>>

\* C15: strength_score = (max_confidence - 33.33) / 66.67 * 100, and the
\* signal is Strong iff the score is above 70, Moderate iff it is above 40
\* and at most 70, Weak iff it is at most 40.
C15_StrengthTiers ==
    signal_strength # None =>
        LET score == Val(strength_score)
        IN /\ score = FracDiv(FracMul(FracSub(Val(max_confidence),
                                               <<3333, 100>>), Hundred),
                               <<6667, 100>>)
           /\ Val(signal_strength) \in {"Strong", "Moderate", "Weak"}
           /\ Val(signal_strength) = "Strong" <=> FracLess(Seventy, score)
           /\ Val(signal_strength) = "Moderate" <=>
                 FracLess(Forty, score) /\ AtLeast(Seventy, score)
           /\ Val(signal_strength) = "Weak" <=> AtLeast(Forty, score)

\* a score of exactly 70 is Moderate
C15_Witness ==
    /\ strength_score = Some(Seventy)
    /\ signal_strength = Some("Moderate")

\* a score of exactly 40 is Weak
C15_FortyIsWeak ==
    /\ strength_score = Some(Forty)
    /\ signal_strength = Some("Weak")

C15_StrongReached == signal_strength = Some("Strong")

\* C16: max_confidence is at least 100/3 and at most 100, so the strength
\* score is never negative and never above 100.
C16_StrengthScoreRange ==
    max_confidence # None =>
        /\ AtLeast(Val(max_confidence), <<100, 3>>)
        /\ AtLeast(Hundred, Val(max_confidence))
        /\ AtLeast(Val(strength_score), Zero)
        /\ AtLeast(Hundred, Val(strength_score))

\* three equal confidences: the smallest maximum, and a score still above 0
C16_Witness ==
    /\ max_confidence = Some(<<100, 3>>)
    /\ FracLess(Zero, Val(strength_score))
    /\ FracLess(Val(strength_score), <<1, 1>>)

\* a single class with all the mass: the score is exactly 100
C16_FullScore ==
    /\ max_confidence = Some(Hundred)
    /\ strength_score = Some(Hundred)

\* the last five Movement symbols of the previous day
LastFive ==
    LET m == Val(prev_day_df).Movement
    IN [i \in 1..5 |-> m[Len(m) - 5 + i]]

\* the length of the longest run of one non-FLAT symbol that ends s
TrailingRun(s) ==
    IF s[Len(s)] = "FLAT" THEN 0
    ELSE CHOOSE k \in 1..Len(s) :
           /\ \A j \in (Len(s) - k + 1)..Len(s) : s[j] = s[Len(s)]
           /\ k < Len(s) => s[Len(s) - k] # s[Len(s)]

MomentumTiers ==
    /\ Val(momentum) = "Strong" <=> Val(consecutive) >= 4
    /\ Val(momentum) = "Moderate" <=>
          Val(consecutive) >= 2 /\ Val(consecutive) <= 3
    /\ Val(momentum) = "Weak" <=> Val(consecutive) <= 1

\* C17: the momentum count is the length of the maximal trailing run of one
\* non-FLAT symbol within the day's last 5 movement symbols, 0 when the last
\* symbol is FLAT; the tier is Strong iff the count is at least 4, Moderate
\* iff it is 2 or 3, Weak otherwise.
C17_MomentumCount ==
    consecutive # None =>
        /\ Val(consecutive) = TrailingRun(LastFive)
        /\ MomentumTiers

\* what the count is instead: the trailing run, but never less than 1
C17_MomentumCountFromOne ==
    consecutive # None =>
        /\ Val(consecutive) =
              IF TrailingRun(LastFive) = 0 THEN 1 ELSE TrailingRun(LastFive)
        /\ MomentumTiers
        /\ Val(momentum_type) =
              IF Val(consecutive) > 1 THEN LastFive[5] ELSE "Mixed"

\* a day that ends on a FLAT movement is reported with a count of 1
C17_FlatTailCountsOne ==
    /\ consecutive = Some(1)
    /\ LastFive[5] = "FLAT"

C17_StrongMomentum == momentum = Some("Strong")

\* C18: the action is BUY / LONG iff the prediction is BULLISH and the
\* signal strength is Strong or Moderate, SELL / SHORT iff the prediction is
\* BEARISH and the strength is Strong or Moderate, and HOLD / WAIT in every
\* other case; the action in the report and in the results file is this
\* one, whatever the momentum and the volatility.
C18_ActionTable ==
    action # None =>
        LET firm == Val(signal_strength) \in {"Strong", "Moderate"}
        IN /\ Val(action) \in {"BUY / LONG", "SELL / SHORT", "HOLD / WAIT"}
           /\ Val(action) = "BUY / LONG" <=>
                 Val(prediction) = "BULLISH" /\ firm
           /\ Val(action) = "SELL / SHORT" <=>
                 Val(prediction) = "BEARISH" /\ firm
           /\ Val(action) = "HOLD / WAIT" <=>
                 Val(prediction) = "NEUTRAL" \/ Val(signal_strength) = "Weak"
           /\ Val(report).action = Val(action)
           /\ pc = "done" => Val(results_file).action = Val(action)

\* a buy signal in spite of weak momentum and high volatility
C18_Witness ==
    /\ action = Some("BUY / LONG")
    /\ momentum = Some("Weak")
    /\ volatility = Some("High")

\* no trade in spite of strong momentum and low volatility
C18_HoldOnStrongMomentum ==
    /\ action = Some("HOLD / WAIT")
    /\ momentum = Some("Strong")
    /\ volatility = Some("Low")

\* a strong NEUTRAL signal is not traded
C18_StrongNeutral ==
    /\ action = Some("HOLD / WAIT")
    /\ prediction = Some("NEUTRAL")
    /\ signal_strength = Some("Strong")

C18_Sell == action = Some("SELL / SHORT") /\ signal_strength = Some("Moderate")

\* the positions of the day's local patterns that are keys of the model
Present ==
    {k \in 1..Len(Val(patterns_found)) :
        Val(patterns_found)[k] \in DOMAIN Val(transition_matrix)}

\* the probability the matched patterns give to move, added up
Mass(move) ==
    FracSum([k \in Present |->
               Get(Val(transition_matrix)[Val(patterns_found)[k]], move)])

\* patterns absent from the model add nothing to the totals or to the
\* match count
AbsentSkipped ==
    matched_patterns # None =>
        /\ Val(matched_patterns) = Cardinality(Present)
        /\ Val(total_up) = Mass("UP")
        /\ Val(total_down) = Mass("DOWN")
        /\ Val(total_flat) = Mass("FLAT")

\* q is 1000 * matched / found rounded to the nearest integer: the match
\* quality in tenths of a percent
TenthsOfPercent(q, matched, found) ==
    LET err == q * found - 1000 * matched
    IN 2 * err <= found /\ 2 * err >= 0 - found

QualityOverAll ==
    report # None =>
        TenthsOfPercent(Val(report).match_quality, Cardinality(Present),
                        Len(Val(patterns_found)))

\* C19, as stated: patterns absent from the model are skipped, add nothing
\* to the totals and are left out of the 'patterns analyzed' figure that
\* match quality is taken over; match quality is the share of the day's local
\* patterns found in the model among all local patterns of the day.
C19_AbsentNotAnalyzed ==
    /\ AbsentSkipped
    /\ QualityOverAll
    /\ report # None => Val(report).patterns_analyzed = Cardinality(Present)

\* C19, amended: patterns absent from the model are skipped, add nothing to
\* the totals and are left out of 'Patterns Matched in Model' only; they
\* count in 'Intraday Patterns Analyzed', which is the number of all local
\* patterns of the day and the denominator of match quality.
C19_AbsentCountedAsAnalyzed ==
    /\ AbsentSkipped
    /\ QualityOverAll
    /\ report # None =>
         /\ Val(report).patterns_analyzed = Len(Val(patterns_found))
         /\ Val(report).patterns_analyzed = Val(num_candles) - 2
         /\ Val(report).patterns_matched = Cardinality(Present)

\* a reported day with a pattern the model does not know
C19_Witness ==
    /\ report # None
    /\ Cardinality(Present) < Len(Val(patterns_found))
    /\ Val(report).match_quality < 1000

\* the diagnostics of the six failure modes
FailureLines ==
    {"Error: Could not load data",
     "Error: Model training failed",
     "Error: Date not in dataset",
     "Error: No previous day data available",
     "Error: Insufficient intraday data for prediction",
     "Error: No matching patterns found in trained model"}

Printed(line) == {i \in 1..Len(stdout) : stdout[i] = line}

Failures == {i \in 1..Len(stdout) : stdout[i] \in FailureLines}

\* C20: once one of the six failure modes has occurred the run is over: the
\* diagnostic is the last thing printed, the status is 1, no step can be
\* taken any more, the PREDICTION RESULT section is not printed, no results
\* file exists, and nothing was done twice.
C20_FailuresAreTerminal ==
    Failures # {} =>
        /\ pc = "exit"
        /\ exit_status = Some(1)
        /\ Failures = {Len(stdout)}
        /\ ~ENABLED Next
        /\ Printed("PREDICTION RESULT") = {}
        /\ report = None
        /\ action = None
        /\ results_file = None
        /\ \A line \in Range(stdout) : Cardinality(Printed(line)) = 1

\* the last of the failure modes, a day without a known pattern, ends the
\* run with nothing reported or saved
C20_Witness ==
    /\ RejectedForNoMatch
    /\ Len(stdout) = 1
    /\ exit_status = Some(1)
    /\ Printed("PREDICTION RESULT") = {}
    /\ results_file = None

\* the sections of the console report, in the order of lines 233-270
ReportSections ==
    <<"PREDICTION RESULT", "TRAINING DATA SUMMARY", "MARKET TREND PREDICTION",
      "SUPPORTING INDICATORS", "PATTERN ANALYSIS", "RECOMMENDED ACTION">>

\* the console report is complete and the last thing on the console
ReportPrinted ==
    /\ report = Some(Shown(Val(action)))
    /\ Len(stdout) >= Len(ReportSections)
    /\ SubSeq(stdout, Len(stdout) - Len(ReportSections) + 1, Len(stdout))
         = ReportSections

SaveFailed == stderr # <<>>

\* C21: a failure to create the results directory or to write the results
\* file ends the run with a diagnostic that names the cause and with status
\* 1; it can only happen once the whole console report, through RECOMMENDED
\* ACTION, is printed, and it leaves that report as it was.  A run that
\* stops after the report without a saved file has given such a diagnostic.
C21_SaveFailureAfterReport ==
    /\ SaveFailed =>
         /\ pc = "exit"
         /\ exit_status = Some(1)
         /\ stderr[1] = "Traceback"
         /\ stderr[2] \in {"OSError: makedirs", "OSError: open",
                           "OSError: write"}
         /\ ReportPrinted
         /\ ~ENABLED Next
    /\ pc = "exit" /\ report # None => SaveFailed
    /\ pc = "done" =>
         /\ ~SaveFailed
         /\ results_file = report
         /\ LastLine = "Prediction results saved"

\* the results directory could not be created: the report is on the console
C21_Witness ==
    /\ SaveFailed
    /\ stderr[2] = "OSError: makedirs"
    /\ results_file = None
    /\ ReportPrinted

\* the file was opened and the write failed
C21_WriteFailed == SaveFailed /\ results_file = Some(Truncated)

SecondRun == first_run # None

Finished == pc \in {"exit", "done"}

C22_SameFailure ==
    /\ SecondRun
    /\ pc = "exit"
    /\ report = None
    /\ Val(first_run).console = stdout

\* load_historical_data has been called
LoadTried == read_attempts # None

\* the rows of the data file that have no missing value
CompleteRows ==
    {i \in Rows(file.table) :
        /\ file.table.Date[i] # NaT
        /\ file.table.Close[i] # NaN
        /\ file.table.High[i] # NaN
        /\ file.table.Low[i] # NaN}

AllRaise == \A sep \in DOMAIN file.read : file.read[sep] = "raises"

\* C23: load_historical_data prints an error and returns no table, and main
\* then stops with status 1, if the file does not exist, if none of the
\* three read_csv calls - tab, comma, whitespace, in that order, each made
\* at most once and only after the one before has raised - returns, or if
\* the table has no Close column.  A table it returns has a Close column, no
\* row with a missing value, and its rows in ascending order of Date.
C23_LoaderContract ==
    LoadTried =>
        LET tried == Val(read_attempts)
        IN /\ Len(tried) <= 3
           /\ tried = SubSeq(<<"tab", "comma", "whitespace">>, 1, Len(tried))
           /\ \A k \in 1..(Len(tried) - 1) : file.read[tried[k]] = "raises"
           /\ ~file.exists => df = None /\ tried = <<>>
           /\ file.exists /\ AllRaise => df = None /\ Len(tried) = 3
           /\ ~file.has_close => df = None
           /\ df = None =>
                /\ pc = "exit"
                /\ exit_status = Some(1)
                /\ Len(stdout) = 3
                /\ stdout[2] \in {"ERROR: Data file not found",
                                  "ERROR loading data",
                                  "ERROR: 'Close' column not found in data!"}
                /\ stdout[3] = "Error: Could not load data"
           /\ df # None =>
                LET t == Val(df)
                IN /\ file.exists /\ file.has_close
                   /\ file.read[tried[Len(tried)]] = "table"
                   /\ \A i \in Rows(t) :
                        /\ t.Date[i] # NaT
                        /\ t.Close[i] # NaN
                        /\ t.High[i] # NaN
                        /\ t.Low[i] # NaN
                   /\ \A i \in Rows(t) : \A j \in Rows(t) :
                        i < j => DateLess(t.Date[i], t.Date[j])
                   /\ {<<t.Date[i], t.Close[i]>> : i \in Rows(t)}
                        = {<<file.table.Date[i], file.table.Close[i]>> :
                             i \in CompleteRows}
                   /\ Len(t.Date) = Cardinality(CompleteRows)

\* a table returned after rows were dropped and the rest put in order
C23_Witness ==
    /\ df # None
    /\ Len(Val(df).Date) = 2
    /\ Len(file.table.Date) = 4
    /\ Val(df).Date # <<file.table.Date[1], file.table.Date[2]>>
    /\ \E i \in CompleteRows : \E j \in CompleteRows :
          i < j /\ DateLess(file.table.Date[j], file.table.Date[i])

\* the comma-separated reading is used after the tab-separated one raised
C23_SecondStrategy == df # None /\ read_attempts = Some(<<"tab", "comma">>)

\* all three readings raise
C23_NoStrategy ==
    /\ df = None
    /\ read_attempts = Some(<<"tab", "comma", "whitespace">>)
    /\ AllRaise

\* the tab-separated reading returns a frame without dates: the other
\* separators are not tried
C23_UnusableFirst ==
    /\ df = None
    /\ read_attempts = Some(<<"tab">>)
    /\ file.read["comma"] = "table"

\* the model and its statistics, as lines 116-124 leave them
ModelAndStatistics ==
    <<transition_matrix, pattern_counts, unique_patterns, avg_frequency>>

\* C24: the model is built once, by the training step, and never changes
\* afterwards - no step adds, removes or changes a key or a probability,
\* looking up an absent pattern included - and the statistics in the report
\* are those of the model as trained.
C24_ModelReadOnly ==
    [][/\ ModelAndStatistics' # ModelAndStatistics =>
            /\ pc = "train"
            /\ ModelAndStatistics = <<None, None, None, None>>
            /\ unique_patterns' =
                  Some(Cardinality(DOMAIN Val(transition_matrix')))
       /\ report' # None =>
            /\ Val(report').unique_patterns =
                  Cardinality(DOMAIN Val(transition_matrix'))
            /\ Val(report').unique_patterns = Val(unique_patterns')
            /\ Val(report').avg_frequency =
                  FormatFixed(Val(avg_frequency'), 10)]_vars

\* a report after the lookup of a pattern that the model does not have: it
\* still does not have it
C24_Witness ==
    /\ report # None
    /\ \E k \in 1..Len(Val(patterns_found)) :
          Val(patterns_found)[k] \notin DOMAIN Val(transition_matrix)
    /\ Val(report).unique_patterns = Cardinality(DOMAIN Val(transition_matrix))

\* the closes of the rows of df that are dated day, in the order of df
ClosesOn(day) ==
    LET idx == Filter([i \in Rows(Val(df)) |-> Val(df).Date[i][1] = day],
                      1, Len(Val(df).Date))
    IN [k \in 1..Len(idx) |-> Val(df).Close[idx[k]]]

\* C25: the previous day is encoded on its own: its first candle is FLAT
\* whatever the close before it, candle j > 1 is UP, DOWN or FLAT as its
\* close is above, below or equal to that of candle j - 1 of the same day,
\* and n candles give n - 2 local patterns, the k-th made of the movements
\* of candles k, k + 1 and k + 2; so the FLAT of the first candle is in the
\* first pattern only.
C25_DayEncodedInIsolation ==
    patterns_found # None =>
        LET m == Val(prev_day_df).Movement
            c == Val(prev_day_df).Close
            n == Len(c)
            found == Val(patterns_found)
        IN /\ c = ClosesOn(Val(previous_day))
           /\ n = Val(num_candles)
           /\ Len(m) = n
           /\ m[1] = "FLAT"
           /\ \A j \in 2..n :
                /\ m[j] = "UP" <=> c[j] > c[j - 1]
                /\ m[j] = "DOWN" <=> c[j] < c[j - 1]
                /\ m[j] = "FLAT" <=> c[j] = c[j - 1]
           /\ Len(found) = n - 2
           /\ \A k \in 1..(n - 2) : found[k] = <<m[k], m[k + 1], m[k + 2]>>

\* the day before the previous day closed higher than the previous day
\* opened, and the first candle is FLAT all the same
C25_Witness ==
    /\ patterns_found # None
    /\ Len(Val(patterns_found)) = 8
    /\ Val(prev_day_df).Movement[1] = "FLAT"
    /\ \E i \in Rows(Val(df)) :
          /\ i + 1 \in Rows(Val(df))
          /\ Val(df).Date[i + 1] = Val(prev_day_df).Date[1]
          /\ Val(df).Close[i] > Val(df).Close[i + 1]

\* the different local patterns of the day that the model knows
KnownPatterns ==
    Range(Val(patterns_found)) \cap DOMAIN Val(transition_matrix)

\* how often the day shows pattern p
Times(p) ==
    Cardinality({k \in 1..Len(Val(patterns_found)) :
                    Val(patterns_found)[k] = p})

\* the mass of move by pattern: occurrences times probability, 0 for an
\* outcome the pattern was never followed by
MassByPattern(move) ==
    FracSum([p \in KnownPatterns |->
               FracMul(<<Times(p), 1>>,
                       IF move \in DOMAIN Val(transition_matrix)[p]
                       THEN Val(transition_matrix)[p][move] ELSE Zero)])

\* C26: every occurrence of a local pattern that the model knows adds the
\* pattern's whole distribution to the totals, nothing for an outcome the
\* distribution lacks; so the three totals add up to matched_patterns, and
\* they are fixed by how often each pattern occurs in the day, not by the
\* order of the occurrences.
C26_TotalsAreSumOfDistributions ==
    matched_patterns # None =>
        /\ FracAdd(FracAdd(Val(total_up), Val(total_down)), Val(total_flat))
             = <<Val(matched_patterns), 1>>
        /\ Val(matched_patterns) = Cardinality(Present)
        /\ Val(total_up) = MassByPattern("UP")
        /\ Val(total_down) = MassByPattern("DOWN")
        /\ Val(total_flat) = MassByPattern("FLAT")

\* a pattern matched more than once whose distribution lacks an outcome
C26_Witness ==
    /\ matched_patterns # None
    /\ Val(matched_patterns) >= 3
    /\ \E p \in KnownPatterns :
          /\ Times(p) >= 2
          /\ DOMAIN Val(transition_matrix)[p] # Symbols
    /\ FracLess(Zero, Val(total_up))
    /\ FracLess(Zero, Val(total_down))

\* C27: from main's start the run never ends on 'No matching patterns found
\* in trained model': the model is trained on all candles, the previous
\* day's and at least one later candle included, so every local pattern but
\* the first is a key of the model, and at least len(patterns_found) - 1,
\* which is at least 7, patterns match.
C27_NoMatchUnreachable ==
    /\ ~RejectedForNoMatch
    /\ matched_patterns # None =>
         LET found == Val(patterns_found)
         IN /\ \A k \in 2..Len(found) :
                  found[k] \in DOMAIN Val(transition_matrix)
            /\ Val(matched_patterns) >= Len(found) - 1
            /\ Len(found) - 1 >= 7

\* the first local pattern, with its FLAT, is the one pattern of eight that
\* the model does not know
C27_Witness ==
    /\ pc = "score"
    /\ matched_patterns = Some(7)
    /\ Len(Val(patterns_found)) = 8
    /\ Val(patterns_found)[1] \notin DOMAIN Val(transition_matrix)

\* the smaller of two numbers
Min(a, b) == IF a < b THEN a ELSE b

\* C28: after training on N >= 4 candles the counts of all patterns and
\* outcomes add up to N - 4, every stored pattern has a count of at least
\* 1, the model has at most min(27, N - 4) keys, transition_matrix and
\* pattern_counts have the same keys, and the average pattern frequency is
\* (N - 4) / unique_patterns, or 0 for an empty model.
C28_CountsAndStatistics ==
    Trained =>
        LET N == Len(Closes)
            counts == Val(pattern_counts)
            keys == DOMAIN Val(transition_matrix)
        IN /\ N >= 4
           /\ Cardinality(Outcomes(Val(movements))) = N - 4
           /\ SumCounts(counts) = N - 4
           /\ \A p \in DOMAIN counts :
                /\ SumValues(counts[p]) = Occurrences(Val(movements), p)
                /\ SumValues(counts[p]) >= 1
           /\ Cardinality(keys) <= Min(27, N - 4)
           /\ keys = DOMAIN counts
           /\ unique_patterns = Some(Cardinality(keys))
           /\ avg_frequency =
                 Some(IF keys = {} THEN Zero
                      ELSE Frac(N - 4, Cardinality(keys)))

\* nine observations of six patterns: an average of one and a half
C28_Witness ==
    /\ Trained
    /\ Len(Closes) = 13
    /\ unique_patterns = Some(6)
    /\ avg_frequency = Some(<<3, 2>>)

\* four candles: no observation, an empty model and an average of 0
C28_EmptyModel ==
    /\ Trained
    /\ Len(Closes) = 4
    /\ unique_patterns = Some(0)
    /\ avg_frequency = Some(Zero)

\* the run has ended on the line msg
EndedOn(msg) == pc = "exit" /\ stdout # <<>> /\ LastLine = msg

\* nothing of the date selection has been evaluated
DateNotAsked ==
    /\ prediction_date_str = None
    /\ prediction_date = None
    /\ pred_index = None
    /\ Printed("DATE SELECTION") = {}

\* nothing of the day's slice has been evaluated
DayNotSliced == previous_day = None /\ prev_day_df = None /\ num_candles = None

\* nothing of the matching has been evaluated
NotMatched == patterns_found = None /\ matched_patterns = None

\* C29: the fatal checks come in the order load, training, date format,
\* date in dataset, predecessor, 10 candles, one match; a run that fails has
\* passed every check before the one it reports, has evaluated nothing
\* after it, has printed one failure line and has status 1.
C29_FirstFailureOnly ==
    /\ EndedOn("Error: Could not load data") =>
         /\ df = None
         /\ transition_matrix = None
         /\ Printed("TRAINING MARKOV MODEL") = {}
         /\ DateNotAsked /\ DayNotSliced /\ NotMatched
    /\ EndedOn("Error: Model training failed") =>
         /\ df # None
         /\ Len(Val(df).Close) < 4
         /\ transition_matrix = None
         /\ DateNotAsked /\ DayNotSliced /\ NotMatched
    /\ EndedOn("Error: Invalid date format") =>
         /\ transition_matrix # None
         /\ Val(prediction_date_str)[1] = "text"
         /\ prediction_date = None
         /\ pred_index = None
         /\ DayNotSliced /\ NotMatched
    /\ EndedOn("Error: Date not in dataset") =>
         /\ transition_matrix # None
         /\ Val(prediction_date_str)[1] = "ymd"
         /\ Val(prediction_date) \notin Days
         /\ pred_index = None
         /\ DayNotSliced /\ NotMatched
    /\ EndedOn("Error: No previous day data available") =>
         /\ transition_matrix # None
         /\ Val(prediction_date) \in Days
         /\ \A d \in Days : Val(prediction_date) <= d
         /\ DayNotSliced /\ NotMatched
    /\ EndedOn("Error: Insufficient intraday data for prediction") =>
         /\ transition_matrix # None
         /\ Val(prediction_date) \in Days
         /\ Val(previous_day) \in Days
         /\ Val(previous_day) < Val(prediction_date)
         /\ Val(num_candles) < 10
         /\ NotMatched
    /\ EndedOn("Error: No matching patterns found in trained model") =>
         /\ transition_matrix # None
         /\ prediction_date # None
         /\ previous_day # None
         /\ Val(num_candles) >= 10
         /\ Val(matched_patterns) = 0
         /\ NoConfidenceYet
    /\ pc = "exit" /\ report = None =>
         /\ exit_status = Some(1)
         /\ Cardinality({i \in 1..Len(stdout) :
               stdout[i] \in FailureLines \cup {"Error: Invalid date format"}})
              = 1
         /\ LastLine \in FailureLines \cup {"Error: Invalid date format"}

\* the first date of the data has fewer than 10 candles: the run reports
\* that it has no previous day
C29_Witness ==
    /\ EndedOn("Error: No previous day data available")
    /\ CandlesOn(Val(prediction_date)) < 10
    /\ Cardinality(Days) >= 2

\* too few candles to train, although no date of the data could be
\* predicted either: the run fails at training
C29_ShortData ==
    /\ EndedOn("Error: Model training failed")
    /\ Cardinality(Days) = 1

\* the symbols s that followed the pattern p somewhere in m
Followers(m, p) == {s \in Symbols : OccurrencesWith(m, p, s) > 0}

\* the patterns that occur in m with an outcome
PatternsOf(m) == {p \in Symbols \X Symbols \X Symbols : Occurrences(m, p) > 0}

\* the day of the candle that closes the movement k
DayOfMovement(k) == Val(df).Date[k + 1][1]

\* the outcomes of m observed on the requested date or later
LateOutcomes(m) ==
    {k \in Outcomes(m) : DayOfMovement(k) >= Val(prediction_date)}

\* C30: the model is built before the date is read, from every candle of
\* the data: whatever date is requested, it holds the transitions of the
\* whole table, those of the requested date and of later days included.
C30_ModelIgnoresDate ==
    /\ pc = "select_date" => Trained /\ prediction_date_str = None
    /\ prediction_date_str # None => Trained
    /\ Trained =>
         LET m == Val(movements)
         IN /\ EncodesCloses(Closes, m)
            /\ Val(pattern_counts) =
                 [p \in PatternsOf(m) |->
                    [s \in Followers(m, p) |-> OccurrencesWith(m, p, s)]]
            /\ Val(transition_matrix) =
                 [p \in PatternsOf(m) |->
                    [s \in Followers(m, p) |->
                       Frac(OccurrencesWith(m, p, s), Occurrences(m, p))]]
    /\ Trained /\ prediction_date # None =>
         \A k \in LateOutcomes(Val(movements)) :
            LET m == Val(movements)
                p == <<m[k - 3], m[k - 2], m[k - 1]>>
            IN /\ p \in DOMAIN Val(transition_matrix)
               /\ m[k] \in DOMAIN Val(transition_matrix)[p]

\* a date has been requested, and the model holds a pattern whose every
\* occurrence lies on that date or later
C30_Witness ==
    /\ Trained
    /\ prediction_date # None
    /\ previous_day # None
    /\ \E p \in DOMAIN Val(transition_matrix) :
         \A k \in Outcomes(Val(movements)) :
            LET m == Val(movements)
            IN <<m[k - 3], m[k - 2], m[k - 1]>> = p =>
                 k \in LateOutcomes(m)

====
